---------------------------- MODULE Spec2Model ----------------------------
(***************************************************************************)
(* A model of scripts/weather.py: the city resolver (get_city_code), the   *)
(* weather fetcher (fetch_weather_data), the normalizer                    *)
(* (parse_gxweather_data), the formatter (format_output) and the entry     *)
(* point (main).                                                           *)
(*                                                                         *)
(* Representation.  A Python str is the sequence of its Unicode code       *)
(* points (the tuple <<21271, 20140>> is the str '北京'), so that `in`,    *)
(* len(), slicing, padding and concatenation are computed as Python        *)
(* computes them.  A value that came out of json.loads is a tagged record: *)
(*   None   [kind |-> "null"]                                              *)
(*   int    [kind |-> "int",  n |-> 5]                                     *)
(*   str    [kind |-> "str",  s |-> <<...>>]                               *)
(*   list   [kind |-> "list", items |-> << v1, v2, ... >>]                 *)
(*   dict   [kind |-> "dict", items |-> << <<k1, v1>>, <<k2, v2>>, ... >>] *)
(* A dict keeps its insertion order (json.dumps and iteration use it); its *)
(* keys are strs.  An operator that models a Python function returns       *)
(* either such a value or [kind |-> "raise", exc |-> "TypeError"], the     *)
(* exception that leaves the function.  bool, float and nested containers  *)
(* as field values are not among the enumerated inputs.                    *)
(***************************************************************************)
EXTENDS Integers, Sequences, FiniteSets, TLC

VARIABLES
    argv,           \* sys.argv: a sequence of strs, argv[1] is sys.argv[0]
    pc,             \* the position of main (or of the function under test)
    city_name,      \* main: city_name
    forecast_days,  \* main: forecast_days
    json_output,    \* main: json_output
    simple,         \* main: simple
    i,              \* main: i, the 0-based index into sys.argv
    city_code,      \* main: city_code
    net,            \* the requests sent so far, each with the answer it got
    data,           \* main: data
    result,         \* parse_gxweather_data: its return value
    stdout,         \* everything written to standard output (a str)
    exc,            \* the exception that ended the process, or "none"
    exit_status     \* the exit status of the process, or "running"

vars == << argv, pc, city_name, forecast_days, json_output, simple, i,
           city_code, net, data, result, stdout, exc, exit_status >>

-----------------------------------------------------------------------------
(* Python str operations.                                                  *)

\* sub in s  (str.__contains__): sub occurs in s as a contiguous run.
StrIn(sub, s) ==
    \E k \in 0..(Len(s) - Len(sub)) : SubSeq(s, k + 1, k + Len(sub)) = sub

-----------------------------------------------------------------------------
(* City Resolver: weather.py lines 14-71.                                  *)

\* CITY_CODES in insertion order, as <<name, code>> pairs.
CITY_CODES ==
    << <<<<21271, 20140>>, <<49, 48, 49, 48, 49, 48, 49, 48, 48>>>>,   \* '北京': '101010100'
       <<<<19978, 28023>>, <<49, 48, 49, 48, 50, 48, 49, 48, 48>>>>,   \* '上海': '101020100'
       <<<<24191, 24030>>, <<49, 48, 49, 50, 56, 48, 49, 48, 49>>>>,   \* '广州': '101280101'
       <<<<28145, 22323>>, <<49, 48, 49, 50, 56, 48, 54, 48, 49>>>>,   \* '深圳': '101280601'
       <<<<26477, 24030>>, <<49, 48, 49, 50, 49, 48, 49, 48, 49>>>>,   \* '杭州': '101210101'
       <<<<21335, 20140>>, <<49, 48, 49, 49, 57, 48, 49, 48, 49>>>>,   \* '南京': '101190101'
       <<<<27494, 27721>>, <<49, 48, 49, 50, 48, 48, 49, 48, 49>>>>,   \* '武汉': '101200101'
       <<<<25104, 37117>>, <<49, 48, 49, 50, 55, 48, 49, 48, 49>>>>,   \* '成都': '101270101'
       <<<<37325, 24198>>, <<49, 48, 49, 48, 52, 48, 49, 48, 48>>>>,   \* '重庆': '101040100'
       <<<<35199, 23433>>, <<49, 48, 49, 49, 49, 48, 49, 48, 49>>>>,   \* '西安': '101110101'
       <<<<22825, 27941>>, <<49, 48, 49, 48, 51, 48, 49, 48, 48>>>>,   \* '天津': '101030100'
       <<<<33487, 24030>>, <<49, 48, 49, 49, 57, 48, 52, 48, 49>>>>,   \* '苏州': '101190401'
       <<<<37073, 24030>>, <<49, 48, 49, 49, 56, 48, 49, 48, 49>>>>,   \* '郑州': '101180101'
       <<<<38271, 27801>>, <<49, 48, 49, 50, 53, 48, 49, 48, 49>>>>,   \* '长沙': '101250101'
       <<<<38738, 23707>>, <<49, 48, 49, 49, 50, 48, 50, 48, 49>>>>,   \* '青岛': '101120201'
       <<<<23425, 27874>>, <<49, 48, 49, 50, 49, 48, 52, 48, 49>>>>,   \* '宁波': '101210401'
       <<<<21414, 38376>>, <<49, 48, 49, 50, 51, 48, 50, 48, 49>>>>,   \* '厦门': '101230201'
       <<<<31119, 24030>>, <<49, 48, 49, 50, 50, 48, 49, 48, 49>>>>,   \* '福州': '101220101'
       <<<<21512, 32933>>, <<49, 48, 49, 50, 50, 48, 49, 48, 49>>>>,   \* '合肥': '101220101'
       <<<<27982, 21335>>, <<49, 48, 49, 49, 50, 48, 49, 48, 49>>>>,   \* '济南': '101120101'
       <<<<22823, 36830>>, <<49, 48, 49, 48, 55, 48, 50, 48, 49>>>>,   \* '大连': '101070201'
       <<<<27784, 38451>>, <<49, 48, 49, 48, 55, 48, 49, 48, 49>>>>,   \* '沈阳': '101070101'
       <<<<21704, 23572, 28392>>, <<49, 48, 49, 48, 53, 48, 49, 48, 49>>>>,   \* '哈尔滨': '101050101'
       <<<<38271, 26149>>, <<49, 48, 49, 48, 54, 48, 49, 48, 49>>>>,   \* '长春': '101060101'
       <<<<30707, 23478, 24196>>, <<49, 48, 49, 48, 57, 48, 49, 48, 49>>>>,   \* '石家庄': '101090101'
       <<<<22826, 21407>>, <<49, 48, 49, 49, 48, 48, 49, 48, 49>>>>,   \* '太原': '101100101'
       <<<<21335, 23425>>, <<49, 48, 49, 51, 48, 48, 49, 48, 49>>>>,   \* '南宁': '101300101'
       <<<<28023, 21475>>, <<49, 48, 49, 51, 49, 48, 49, 48, 49>>>>,   \* '海口': '101310101'
       <<<<36149, 38451>>, <<49, 48, 49, 50, 54, 48, 49, 48, 49>>>>,   \* '贵阳': '101260101'
       <<<<26118, 26126>>, <<49, 48, 49, 50, 57, 48, 49, 48, 49>>>>,   \* '昆明': '101290101'
       <<<<25289, 33832>>, <<49, 48, 49, 50, 56, 49, 52, 48, 49>>>>,   \* '拉萨': '101281401'
       <<<<20848, 24030>>, <<49, 48, 49, 49, 54, 48, 49, 48, 49>>>>,   \* '兰州': '101160101'
       <<<<38134, 24029>>, <<49, 48, 49, 49, 53, 48, 49, 48, 49>>>>,   \* '银川': '101150101'
       <<<<35199, 23425>>, <<49, 48, 49, 49, 53, 48, 49, 48, 49>>>>,   \* '西宁': '101150101'
       <<<<20044, 40065, 26408, 40784>>, <<49, 48, 49, 49, 51, 48, 49, 48, 49>>>>,   \* '乌鲁木齐': '101130101'
       <<<<21628, 21644, 28009, 29305>>, <<49, 48, 49, 48, 56, 48, 49, 48, 49>>>>,   \* '呼和浩特': '101080101'
       <<<<28789, 23665>>, <<49, 48, 49, 51, 48, 49, 49, 48, 51>>>>,   \* '灵山': '101301103'
       <<<<38054, 24030>>, <<49, 48, 49, 51, 48, 49, 49, 48, 49>>>>,   \* '钦州': '101301101'
       <<<<21271, 28023>>, <<49, 48, 49, 51, 48, 49, 51, 48, 49>>>>,   \* '北海': '101301301'
       <<<<38450, 22478, 28207>>, <<49, 48, 49, 51, 48, 49, 52, 48, 49>>>>,   \* '防城港': '101301401'
       <<<<29577, 26519>>, <<49, 48, 49, 51, 48, 48, 57, 48, 49>>>>,   \* '玉林': '101300901'
       <<<<36149, 28207>>, <<49, 48, 49, 51, 48, 48, 56, 48, 49>>>>,   \* '贵港': '101300801'
       <<<<27178, 21439>>, <<49, 48, 49, 51, 48, 48, 49, 48, 52>>>>,   \* '横县': '101300104'
       <<<<28006, 21271>>, <<49, 48, 49, 51, 48, 49, 49, 48, 50>>>> >>   \* '浦北': '101301102'

\* CITY_CODES.items() restricted to names / the position of a key.
CityKeyIndex(name) == { k \in 1..Len(CITY_CODES) : CITY_CODES[k][1] = name }

\* for name, code in CITY_CODES.items(): the loop from entry k on.
RECURSIVE FuzzyFrom(_, _)
FuzzyFrom(k, name) ==
    IF k > Len(CITY_CODES) THEN <<49, 48, 49, 48, 49, 48, 49, 48, 48>>   \* '101010100'
    ELSE IF StrIn(CITY_CODES[k][1], name) \/ StrIn(name, CITY_CODES[k][1])
         THEN CITY_CODES[k][2]
         ELSE FuzzyFrom(k + 1, name)

\* Variants of get_city_code with a slip in the fuzzy loop: the last
\* matching entry wins; only `name in city_name` is tested.
RECURSIVE FuzzyLast(_, _)
FuzzyLast(k, name) ==
    IF k < 1 THEN <<49, 48, 49, 48, 49, 48, 49, 48, 48>>
    ELSE IF StrIn(CITY_CODES[k][1], name) \/ StrIn(name, CITY_CODES[k][1])
         THEN CITY_CODES[k][2]
         ELSE FuzzyLast(k - 1, name)
get_city_code_LastMatch(name) ==
    IF CityKeyIndex(name) # {}
    THEN CITY_CODES[CHOOSE k \in CityKeyIndex(name) : TRUE][2]
    ELSE FuzzyLast(Len(CITY_CODES), name)
RECURSIVE FuzzyOneWay(_, _)
FuzzyOneWay(k, name) ==
    IF k > Len(CITY_CODES) THEN <<49, 48, 49, 48, 49, 48, 49, 48, 48>>
    ELSE IF StrIn(CITY_CODES[k][1], name)
         THEN CITY_CODES[k][2]
         ELSE FuzzyOneWay(k + 1, name)
get_city_code_OneWay(name) ==
    IF CityKeyIndex(name) # {}
    THEN CITY_CODES[CHOOSE k \in CityKeyIndex(name) : TRUE][2]
    ELSE FuzzyOneWay(1, name)

get_city_code(name) ==
    IF CityKeyIndex(name) # {}
    THEN CITY_CODES[CHOOSE k \in CityKeyIndex(name) : TRUE][2]
    ELSE FuzzyFrom(1, name)

-----------------------------------------------------------------------------
(* Python values and the operations the script applies to them.            *)

PyNone == [kind |-> "null"]
PyInt(n) == [kind |-> "int", n |-> n]
PyStr(s) == [kind |-> "str", s |-> s]
PyList(items) == [kind |-> "list", items |-> items]
PyDict(items) == [kind |-> "dict", items |-> items]
Raise(e) == [kind |-> "raise", exc |-> e]

\* key in d, d[key] and d.get(key, default) for a dict d.
DictHas(d, key) == \E k \in 1..Len(d.items) : d.items[k][1] = key
DictItem(d, key) == d.items[CHOOSE k \in 1..Len(d.items) : d.items[k][1] = key][2]
DictGet(d, key, default) == IF DictHas(d, key) THEN DictItem(d, key) ELSE default

\* bool(v): None, 0, '', [] and {} are falsy.
Truthy(v) ==
    CASE v.kind = "null" -> FALSE
      [] v.kind = "int"  -> v.n # 0
      [] v.kind = "str"  -> v.s # << >>
      [] v.kind = "list" -> v.items # << >>
      [] v.kind = "dict" -> v.items # << >>

\* key in v for a str key: defined for dict (a key), list (an element) and
\* str (a substring); on None and int Python raises TypeError.
HasIn(v) == v.kind \in {"dict", "list", "str"}
KeyIn(key, v) ==
    CASE v.kind = "dict" -> DictHas(v, key)
      [] v.kind = "list" -> \E k \in 1..Len(v.items) : v.items[k].kind = "str" /\ v.items[k].s = key
      [] v.kind = "str"  -> StrIn(key, v.s)

\* str(n) for a natural number n, and for any int.
RECURSIVE NatToStr(_)
NatToStr(n) ==
    IF n < 10 THEN << 48 + n >> ELSE NatToStr(n \div 10) \o << 48 + (n % 10) >>
IntToStr(n) == IF n < 0 THEN << 45 >> \o NatToStr(-n) ELSE NatToStr(n)

\* str(v), as an f-string field renders v.
py_str(v) ==
    CASE v.kind = "str"  -> v.s
      [] v.kind = "int"  -> IntToStr(v.n)
      [] v.kind = "null" -> <<78, 111, 110, 101>>                        \* 'None'

\* int(s) for a str s, base 10.  Blanks around the literal are dropped; the
\* literal is an optional ASCII sign followed by decimal digits of any
\* script, with single underscores allowed between digits; anything else,
\* or more than int_max_str_digits digits, raises ValueError.
IntSpaces ==
    (9..13) \cup { 32, 133, 160, 5760 } \cup (8192..8202)
            \cup { 8232, 8233, 8239, 8287, 12288 }
\* The code point of the digit zero of every script with decimal digits; the
\* digits one to nine of the script follow it.
DecimalZeros ==
    {
      48, 1632, 1776, 1984, 2406, 2534, 2662, 2790,
      2918, 3046, 3174, 3302, 3430, 3558, 3664, 3792,
      3872, 4160, 4240, 6112, 6160, 6470, 6608, 6784,
      6800, 6992, 7088, 7232, 7248, 42528, 43216, 43264,
      43472, 43504, 43600, 44016, 65296, 66720, 68912, 69734,
      69872, 69942, 70096, 70384, 70736, 70864, 71248, 71360,
      71472, 71904, 72016, 72784, 73040, 73120, 92768, 92864,
      93008, 120782, 120792, 120802, 120812, 120822, 123200, 123632,
      125264, 130032 }
IsDecimal(c) == \E z \in DecimalZeros : c \in z..(z + 9)
DecimalValue(c) == c - (CHOOSE z \in DecimalZeros : c \in z..(z + 9))
int_max_str_digits == 4300
RECURSIVE LStripSpaces(_)
LStripSpaces(s) ==
    IF s # << >> /\ s[1] \in IntSpaces THEN LStripSpaces(Tail(s)) ELSE s
RECURSIVE RStripSpaces(_)
RStripSpaces(s) ==
    IF s # << >> /\ s[Len(s)] \in IntSpaces
    THEN RStripSpaces(SubSeq(s, 1, Len(s) - 1)) ELSE s
StripSpaces(s) == RStripSpaces(LStripSpaces(s))
DigitCount(s) == Cardinality({ k \in 1..Len(s) : IsDecimal(s[k]) })
IsDigits(s) ==
    /\ s # << >>
    /\ \A k \in 1..Len(s) : IsDecimal(s[k]) \/ s[k] = 95
    /\ IsDecimal(s[1]) /\ IsDecimal(s[Len(s)])
    /\ \A k \in 1..(Len(s) - 1) : ~(s[k] = 95 /\ s[k + 1] = 95)
    /\ DigitCount(s) <= int_max_str_digits
RECURSIVE DigitsToNat(_)
DigitsToNat(s) ==
    IF s = << >> THEN 0
    ELSE IF s[Len(s)] = 95 THEN DigitsToNat(SubSeq(s, 1, Len(s) - 1))
    ELSE 10 * DigitsToNat(SubSeq(s, 1, Len(s) - 1)) + DecimalValue(s[Len(s)])
Unsigned(s) == IF s # << >> /\ s[1] \in {43, 45} THEN Tail(s) ELSE s
IsIntLiteral(s) == IsDigits(Unsigned(StripSpaces(s)))
py_int(s) ==
    IF ~IsIntLiteral(s) THEN Raise("ValueError")
    ELSE IF StripSpaces(s)[1] = 45
         THEN PyInt(-DigitsToNat(Unsigned(StripSpaces(s))))
         ELSE PyInt(DigitsToNat(Unsigned(StripSpaces(s))))

\* s.rjust(width, '0') and format(s, '<width').
RECURSIVE ZeroPad(_, _)
ZeroPad(s, width) == IF Len(s) >= width THEN s ELSE ZeroPad(<< 48 >> \o s, width)
RECURSIVE PadRight(_, _)
PadRight(s, width) == IF Len(s) >= width THEN s ELSE PadRight(s \o << 32 >>, width)

\* datetime.strftime('%Y-%m-%d %H:%M') of a clock reading
\* [year, month, day, hour, minute] whose year has four digits (the padding
\* of an earlier year depends on the platform's C library).
strftime(t) ==
    NatToStr(t.year) \o << 45 >> \o ZeroPad(NatToStr(t.month), 2)
      \o << 45 >> \o ZeroPad(NatToStr(t.day), 2) \o << 32 >>
      \o ZeroPad(NatToStr(t.hour), 2) \o << 58 >> \o ZeroPad(NatToStr(t.minute), 2)

\* '\n'.join(lines)
RECURSIVE JoinLines(_)
JoinLines(lines) ==
    IF lines = << >> THEN << >>
    ELSE IF Len(lines) = 1 THEN lines[1]
    ELSE lines[1] \o << 10 >> \o JoinLines(Tail(lines))

\* The keys of the report.
k_city == <<99, 105, 116, 121>>
k_update_time == <<117, 112, 100, 97, 116, 101, 95, 116, 105, 109, 101>>
k_current == <<99, 117, 114, 114, 101, 110, 116>>
k_forecast == <<102, 111, 114, 101, 99, 97, 115, 116>>
k_temp == <<116, 101, 109, 112>>
k_feels_like == <<102, 101, 101, 108, 115, 95, 108, 105, 107, 101>>
k_weather == <<119, 101, 97, 116, 104, 101, 114>>
k_humidity == <<104, 117, 109, 105, 100, 105, 116, 121>>
k_wind == <<119, 105, 110, 100>>
k_aqi == <<97, 113, 105>>
k_pressure == <<112, 114, 101, 115, 115, 117, 114, 101>>
k_visibility == <<118, 105, 115, 105, 98, 105, 108, 105, 116, 121>>
k_date == <<100, 97, 116, 101>>
k_temp_low == <<116, 101, 109, 112, 95, 108, 111, 119>>
k_temp_high == <<116, 101, 109, 112, 95, 104, 105, 103, 104>>
NA == <<78, 47, 65>>                                                     \* 'N/A'

-----------------------------------------------------------------------------
(* Data Normalizer: weather.py lines 98-132.                               *)

CurrentKeys ==
    << k_temp, k_feels_like, k_weather, k_humidity, k_wind, k_aqi, k_pressure,
       k_visibility >>
DayKeys == << k_date, k_weather, k_temp_low, k_temp_high, k_wind >>

\* { key: d.get(key, default) for key in keys }, in the order of keys.
PickFields(d, keys, default) ==
    PyDict([k \in 1..Len(keys) |-> << keys[k], DictGet(d, keys[k], default) >>])

\* s[:n] for a sequence s.
Prefix(s, n) == SubSeq(s, 1, IF Len(s) < n THEN Len(s) ELSE n)

\* Lines 108-119: the value of result['current'], or the exception raised.
ParseCurrent(d) ==
    IF ~HasIn(d) THEN Raise("TypeError")                \* 'current' in data
    ELSE IF ~KeyIn(k_current, d) THEN PyDict(<< >>)
    ELSE IF d.kind # "dict" THEN Raise("TypeError")     \* data['current']
    ELSE IF DictItem(d, k_current).kind # "dict"
         THEN Raise("AttributeError")                      \* current.get
         ELSE PickFields(DictItem(d, k_current), CurrentKeys, PyStr(NA))

\* Lines 122-130: the value of result['forecast'], or the exception raised.
\* A str value is sliced and iterated character by character, so that
\* day.get fails on its first character; [:7] of a dict raises TypeError.
ParseForecast(d) ==
    IF ~KeyIn(k_forecast, d) THEN PyList(<< >>)
    ELSE IF d.kind # "dict" THEN Raise("TypeError")     \* data['forecast']
    ELSE LET fc == DictItem(d, k_forecast) IN
         CASE fc.kind \in {"null", "int", "dict"} -> Raise("TypeError")
           [] fc.kind = "str" ->
                IF fc.s = << >> THEN PyList(<< >>) ELSE Raise("AttributeError")
           [] fc.kind = "list" ->
                LET days == Prefix(fc.items, 7) IN
                IF \E k \in 1..Len(days) : days[k].kind # "dict"
                THEN Raise("AttributeError")
                ELSE PyList([k \in 1..Len(days) |->
                                PickFields(days[k], DayKeys, PyStr(<< >>))])

\* The dict of lines 100-105 and of lines 201-222, keys in source order.
MakeReport(city, update_time, current, forecast) ==
    PyDict(<< << k_city, city >>,
              << k_update_time, update_time >>,
              << k_current, current >>,
              << k_forecast, forecast >> >>)

\* parse_gxweather_data(data, city_name), called when the clock reads now.
parse_gxweather_data(d, name, now) ==
    LET current == ParseCurrent(d) IN
    IF current.kind = "raise" THEN current
    ELSE LET forecast == ParseForecast(d) IN
         IF forecast.kind = "raise" THEN forecast
         ELSE MakeReport(PyStr(name), PyStr(strftime(now)), current, forecast)

-----------------------------------------------------------------------------
(* Output Formatter: weather.py lines 134-166.                             *)

\* json.dumps' escaping of one character of a str with ensure_ascii=False:
\* the quote, the backslash and the control characters are escaped, every
\* other character is kept as it is.
HexDigit(n) == IF n < 10 THEN 48 + n ELSE 87 + n
JsonChar(c) ==
    CASE c = 34 -> << 92, 34 >>
      [] c = 92 -> << 92, 92 >>
      [] c = 10 -> << 92, 110 >>
      [] c = 13 -> << 92, 114 >>
      [] c = 9  -> << 92, 116 >>
      [] c = 8  -> << 92, 98 >>
      [] c = 12 -> << 92, 102 >>
      [] c < 32 /\ c \notin {8, 9, 10, 12, 13} ->
            << 92, 117, 48, 48, HexDigit(c \div 16), HexDigit(c % 16) >>
      [] OTHER  -> << c >>
RECURSIVE JsonEscape(_)
JsonEscape(s) == IF s = << >> THEN << >> ELSE JsonChar(Head(s)) \o JsonEscape(Tail(s))
JsonStr(s) == << 34 >> \o JsonEscape(s) \o << 34 >>

\* A line break followed by the indentation of nesting level n (indent=2).
RECURSIVE Spaces(_)
Spaces(n) == IF n = 0 THEN << >> ELSE << 32 >> \o Spaces(n - 1)
NewLine(level) == << 10 >> \o Spaces(2 * level)

\* json.dumps(v, ensure_ascii=False, indent=2), v nested at the given level.
RECURSIVE json_dumps(_, _)
RECURSIVE JsonItems(_, _, _, _)
JsonItems(v, k, level, isDict) ==
    LET item == IF isDict
                THEN JsonStr(v.items[k][1]) \o << 58, 32 >>
                       \o json_dumps(v.items[k][2], level)
                ELSE json_dumps(v.items[k], level)
    IN  IF k = Len(v.items) THEN item
        ELSE item \o << 44 >> \o NewLine(level) \o JsonItems(v, k + 1, level, isDict)
json_dumps(v, level) ==
    CASE v.kind = "null" -> <<110, 117, 108, 108>>
      [] v.kind = "int"  -> IntToStr(v.n)
      [] v.kind = "str"  -> JsonStr(v.s)
      [] v.kind = "list" ->
            IF v.items = << >> THEN << 91, 93 >>
            ELSE << 91 >> \o NewLine(level + 1) \o JsonItems(v, 1, level + 1, FALSE)
                   \o NewLine(level) \o << 93 >>
      [] v.kind = "dict" ->
            IF v.items = << >> THEN << 123, 125 >>
            ELSE << 123 >> \o NewLine(level + 1) \o JsonItems(v, 1, level + 1, TRUE)
                   \o NewLine(level) \o << 125 >>

\* Lines 143-149: the six lines of the current conditions.
CurrentLines(current) ==
    << <<127777, 65039, 32, 24403, 21069, 28201, 24230, 65306>>          \* '🌡️ 当前温度：'
         \o py_str(DictGet(current, k_temp, PyStr(NA))) \o <<176, 67>>,
       <<129298, 32, 20307, 24863, 28201, 24230, 65306>>                 \* '🤒 体感温度：'
         \o py_str(DictGet(current, k_feels_like, PyStr(NA))) \o <<176, 67>>,
       <<9729, 65039, 32, 22825, 27668, 65306>>                          \* '☁️ 天气：'
         \o py_str(DictGet(current, k_weather, PyStr(NA))),
       <<128167, 32, 28287, 24230, 65306>>                               \* '💧 湿度：'
         \o py_str(DictGet(current, k_humidity, PyStr(NA))) \o <<37>>,
       <<127788, 65039, 32, 39118, 21521, 39118, 21147, 65306>>          \* '🌬️ 风向风力：'
         \o py_str(DictGet(current, k_wind, PyStr(NA))),
       <<128202, 32, 65, 81, 73, 58, 32>>                                \* '📊 AQI: '
         \o py_str(DictGet(current, k_aqi, PyStr(NA))) >>

\* Lines 156-161: the line of one forecast day, a dict whose weather is a str.
DayLine(day) ==
    LET date == py_str(DictGet(day, k_date, PyStr(<< >>)))
        weather == DictGet(day, k_weather, PyStr(<< >>)).s
        temp == py_str(DictGet(day, k_temp_low, PyStr(<< >>))) \o <<8451, 32, 126, 32>>
                  \o py_str(DictGet(day, k_temp_high, PyStr(<< >>))) \o <<8451>>
        wind == py_str(DictGet(day, k_wind, PyStr(<< >>)))
        rain == IF StrIn(<<38632>>, weather) THEN <<9888, 65039>> ELSE << >>
    IN  << 32, 32 >> \o date \o << 32, 32 >> \o PadRight(weather, 10) \o << 32 >>
          \o temp \o << 32, 32 >> \o wind \o << 32 >> \o rain

\* The exception the loop of lines 155-161 raises on a truthy forecast, or
\* "none": an int is not iterable; the elements of a str or of a dict are
\* strs and have no get; a day that is no dict has no get; a weather that is
\* no str fails at `in` or at the format specification '<10'.
RECURSIVE DaysError(_)
DaysError(days) ==
    IF days = << >> THEN "none"
    ELSE IF Head(days).kind # "dict" THEN "AttributeError"
    ELSE IF DictGet(Head(days), k_weather, PyStr(<< >>)).kind # "str" THEN "TypeError"
    ELSE DaysError(Tail(days))
ForecastError(forecast) ==
    CASE forecast.kind = "int" -> "TypeError"
      [] forecast.kind \in {"str", "dict"} -> "AttributeError"
      [] forecast.kind = "list" -> DaysError(forecast.items)

\* Lines 139-166: the text report of a dict that has the key 'city'.
TextLines(d) ==
    LET current == DictGet(d, k_current, PyDict(<< >>))
        forecast == DictGet(d, k_forecast, PyList(<< >>))
    IN  << <<128205, 32>> \o py_str(DictItem(d, k_city)) >>              \* '📍 '
          \o (IF Truthy(current) THEN CurrentLines(current) ELSE << >>)
          \o (IF Truthy(forecast)
              THEN << << >>,
                      <<128197, 32, 26410, 26469, 32, 55, 32, 22825, 39044, 25253, 58>> >>
                                                                         \* '📅 未来 7 天预报:'
                     \o [k \in 1..Len(forecast.items) |-> DayLine(forecast.items[k])]
              ELSE << >>)
          \o << << >>,
                <<9200, 32, 26356, 26032, 26102, 38388, 65306>>          \* '⏰ 更新时间：'
                  \o py_str(DictGet(d, k_update_time, PyStr(NA))) >>

\* Lines 136-166, which read data and json_output only: the str returned,
\* or the exception raised.  data['city'] raises TypeError on a value that
\* is no dict and KeyError on a dict without the key.
FormatReport(d, json_output_) ==
    IF json_output_ THEN PyStr(json_dumps(d, 0))
    ELSE IF d.kind # "dict" THEN Raise("TypeError")
    ELSE IF ~DictHas(d, k_city) THEN Raise("KeyError")
    ELSE IF Truthy(DictGet(d, k_current, PyDict(<< >>)))
              /\ DictGet(d, k_current, PyDict(<< >>)).kind # "dict"
         THEN Raise("AttributeError")
    ELSE IF Truthy(DictGet(d, k_forecast, PyList(<< >>)))
              /\ ForecastError(DictGet(d, k_forecast, PyList(<< >>))) # "none"
         THEN Raise(ForecastError(DictGet(d, k_forecast, PyList(<< >>))))
    ELSE PyStr(JoinLines(TextLines(d)))

\* A variant of format_output in which simple shortens the text report to
\* its city line.
format_output_Simple(d, simple_, json_output_) ==
    IF simple_ /\ ~json_output_ /\ d.kind = "dict" /\ DictHas(d, k_city)
    THEN PyStr(<<128205, 32>> \o py_str(DictItem(d, k_city)))
    ELSE FormatReport(d, json_output_)

\* format_output(data, simple, json_output): no line of the body reads
\* simple.
format_output(d, simple_, json_output_) == FormatReport(d, json_output_)

-----------------------------------------------------------------------------
(* Weather Fetcher: weather.py lines 73-96.                                *)

\* urls: the candidate URLs for a city code, in the order they are tried.
CandidateUrls(code) ==
    << <<104, 116, 116, 112, 115, 58, 47, 47, 119, 119, 119, 46, 103, 120, 119,
         101, 97, 116, 104, 101, 114, 46, 99, 111, 109, 47, 97, 112, 105, 47, 99,
         105, 116, 121, 47>> \o code,        \* 'https://www.gxweather.com/api/city/{city_code}'
       <<104, 116, 116, 112, 115, 58, 47, 47, 119, 119, 119, 46, 103, 120, 119,
         101, 97, 116, 104, 101, 114, 46, 99, 111, 109, 47, 108, 105, 110, 103,
         115, 104, 97, 110, 47>> >>          \* 'https://www.gxweather.com/lingshan/'

\* What one request can meet.  [kind |-> "error"]: urlopen, read or decode
\* raised (a transport error, an HTTP error status, the 10 s timeout, bytes
\* that are not UTF-8).  [kind |-> "response", ctype, body]: a body was read;
\* ctype is headers.get('Content-Type', '') and body is what json.loads makes
\* of the text: a value, or [kind |-> "invalid"] when it raises.
NetError == [kind |-> "error"]
Response(ctype, body) == [kind |-> "response", ctype |-> ctype, body |-> body]
Invalid == [kind |-> "invalid"]

\* Lines 91-92: the request returns from fetch_weather_data (the content
\* type names json and the body parses); otherwise the loop continues.
Succeeds(r) ==
    /\ r.kind = "response"
    /\ StrIn(<<106, 115, 111, 110>>, r.ctype)                            \* 'json'
    /\ r.body.kind # "invalid"

-----------------------------------------------------------------------------
(* Entry Point: weather.py lines 168-225.                                  *)

\* Lines 170-172: the three lines of the usage message, as print writes them.
UsageText ==
    <<29992, 27861, 65306, 112, 121, 116, 104, 111, 110, 51, 32, 119, 101, 97,
      116, 104, 101, 114, 46, 112, 121, 32, 22478, 24066, 21517, 32, 91, 45, 45,
      102, 111, 114, 101, 99, 97, 115, 116, 32, 78, 93, 32, 91, 45, 45, 106, 115,
      111, 110, 93, 32, 91, 45, 45, 115, 105, 109, 112, 108, 101, 93, 10>>
    \o <<31034, 20363, 65306, 112, 121, 116, 104, 111, 110, 51, 32, 119, 101, 97,
         116, 104, 101, 114, 46, 112, 121, 32, 21271, 20140, 10>>
    \o <<32, 32, 32, 32, 32, 32, 112, 121, 116, 104, 111, 110, 51, 32, 119, 101,
         97, 116, 104, 101, 114, 46, 112, 121, 32, 28789, 23665, 32, 45, 45, 102,
         111, 114, 101, 99, 97, 115, 116, 32, 55, 10>>

a_json == <<45, 45, 106, 115, 111, 110>>                                 \* '--json'
a_simple == <<45, 45, 115, 105, 109, 112, 108, 101>>                     \* '--simple'
a_forecast == <<45, 45, 102, 111, 114, 101, 99, 97, 115, 116>>           \* '--forecast'

\* Lines 215-220: one day of the demo forecast.
DemoDay(date, weather, low, high, wind) ==
    PyDict(<< << k_date, PyStr(date) >>, << k_weather, PyStr(weather) >>,
              << k_temp_low, PyStr(low) >>, << k_temp_high, PyStr(high) >>,
              << k_wind, PyStr(wind) >> >>)
DemoForecast ==
    << 
       DemoDay(<<50, 32, 26376, 32, 49, 57, 32, 26085, 32, 40, 20170, 22825, 41>>,      \* '2 月 19 日 (今天)'
               <<22810, 20113>>, <<49, 52>>, <<50, 51>>, <<21271, 39118, 32, 50, 32, 32423>>),
       DemoDay(<<50, 32, 26376, 32, 50, 48, 32, 26085, 32, 40, 21608, 20116, 41>>,      \* '2 月 20 日 (周五)'
               <<22810, 20113>>, <<49, 52>>, <<50, 53>>, <<21271, 39118, 32, 50, 32, 32423>>),
       DemoDay(<<50, 32, 26376, 32, 50, 49, 32, 26085, 32, 40, 21608, 20845, 41>>,      \* '2 月 21 日 (周六)'
               <<22810, 20113, 36716, 38452>>, <<49, 55>>, <<50, 54>>, <<21335, 39118, 32, 50, 32, 32423>>),
       DemoDay(<<50, 32, 26376, 32, 50, 50, 32, 26085, 32, 40, 21608, 26085, 41>>,      \* '2 月 22 日 (周日)'
               <<38452>>, <<49, 57>>, <<50, 54>>, <<>>),
       DemoDay(<<50, 32, 26376, 32, 50, 51, 32, 26085, 32, 40, 21608, 19968, 41>>,      \* '2 月 23 日 (周一)'
               <<22810, 20113>>, <<49, 57>>, <<50, 55>>, <<>>),
       DemoDay(<<50, 32, 26376, 32, 50, 52, 32, 26085, 32, 40, 21608, 20108, 41>>,      \* '2 月 24 日 (周二)'
               <<22810, 20113, 36716, 23567, 38632>>, <<49, 55>>, <<50, 54>>, <<>>) >>

\* Lines 204-213: the demo current conditions.
DemoCurrent ==
    PyDict(<< << k_temp, PyStr(<<49, 52>>) >>,                                    \* '14'
              << k_feels_like, PyStr(<<49, 48, 46, 56>>) >>,                      \* '10.8'
              << k_weather, PyStr(<<22810, 20113>>) >>,                           \* '多云'
              << k_humidity, PyStr(<<55, 50>>) >>,                                \* '72'
              << k_wind, PyStr(<<19996, 21271, 39118, 32, 50, 32, 32423>>) >>,    \* '东北风 2 级'
              << k_aqi, PyStr(<<54, 51>>) >>,                                     \* '63'
              << k_pressure, PyStr(<<49, 48, 49, 48>>) >>,                        \* '1010'
              << k_visibility, PyStr(<<50, 50, 46, 56, 54>>) >> >>)               \* '22.86'

\* A variant of DemoReport that names the default city, not the input.
DemoReport_DefaultCity(name, now) ==
    MakeReport(PyStr(<<21271, 20140>>), PyStr(strftime(now)), DemoCurrent,
               PyList(DemoForecast))

\* Lines 201-222: the demo report for a city name, built when the clock
\* reads now.
DemoReport(name, now) ==
    MakeReport(PyStr(name), PyStr(strftime(now)), DemoCurrent, PyList(DemoForecast))

-----------------------------------------------------------------------------
(* The inputs: command lines, clock readings and server answers.           *)

MaxArgs == 3          \* the most arguments after the city name
MaxForecast == 8      \* the longest forecast list a server sends

SeqsUpTo(S, n) == UNION { [1..m -> S] : m \in 0..n }

prog == <<119, 101, 97, 116, 104, 101, 114, 46, 112, 121>>               \* 'weather.py'
Cities ==
    { <<21271, 20140>>,                                                  \* '北京'
      <<28789, 23665, 21439>> }                                          \* '灵山县'
Tokens == { a_json, a_simple, a_forecast, <<51>> }                       \* ..., '3'
\* Day counts written with a blank, a line end, an underscore, and a
\* fullwidth digit.
Numerals ==
    { <<32, 51>>, <<51, 10>>, <<49, 95, 48, 48, 48>>, <<65299>> }
\* No argument; a city and up to MaxArgs tokens; a city, --forecast with
\* one of the numerals, and --json up to MaxArgs arguments.
Argvs ==
    { << prog >> }
      \cup { << prog, c >> \o a : c \in Cities, a \in SeqsUpTo(Tokens, MaxArgs) }
      \cup { << prog, c, a_forecast, n >> \o a :
                c \in Cities, n \in Numerals, a \in SeqsUpTo({a_json}, MaxArgs - 2) }

Clocks ==
    { [year |-> 2026, month |-> 2, day |-> 9, hour |-> 7, minute |-> 5],
      [year |-> 2026, month |-> 12, day |-> 31, hour |-> 23, minute |-> 59] }

\* Day k of a provider's forecast: the temperatures are a number and a str,
\* every second day is rainy and has no wind, and there is a key the
\* report does not know.
LiveDay(k) ==
    PyDict(<< << k_date, PyStr(<<51, 45>> \o NatToStr(k)) >>,                     \* '3-k'
              << k_weather, PyStr(IF k % 2 = 0 THEN <<23567, 38632>>              \* '小雨'
                                               ELSE <<26228>>) >>,               \* '晴'
              << k_temp_low, PyInt(k) >>,
              << k_temp_high, PyStr(NatToStr(10 + k)) >> >>
           \o (IF k % 2 = 0 THEN << >>
               ELSE << << k_wind, PyStr(<<21271, 39118>>) >> >>)                  \* '北风'
           \o << << <<117, 118>>, PyInt(k) >> >>)                                 \* 'uv'
LiveCurrent ==
    PyDict(<< << k_temp, PyStr(<<50, 49>>) >>,                                    \* '21'
              << k_weather, PyStr(<<26228>>) >>,                                  \* '晴'
              << k_humidity, PyInt(60) >> >>)
\* A provider's answer with a forecast of n days.
LiveReport(n) ==
    PyDict(<< << k_city, PyStr(<<21335, 23425, 24066>>) >>,                       \* '南宁市'
              << k_current, LiveCurrent >>,
              << k_forecast, PyList([k \in 1..n |-> LiveDay(k)]) >> >>)

\* The values a JSON body parses to: null, a number, a list, objects that
\* lack keys or hold values of another type, and full answers whose
\* forecast is empty, one day long, and as long as MaxForecast or a day less.
Bodies ==
    { PyNone, PyInt(5), PyList(<< >>), PyDict(<< >>) }
      \cup { LiveReport(n) : n \in {0, 1, MaxForecast - 1, MaxForecast} }
      \cup { PyDict(<< << k_city, PyStr(<<120>>) >> >>),
             PyDict(<< << k_city, PyInt(7) >>, << k_current, PyStr(<<120>>) >> >>),
             PyDict(<< << k_city, PyStr(<<120>>) >>,
                       << k_current, PyDict(<< << k_temp, PyStr(<< >>) >> >>) >> >>),
             PyDict(<< << k_city, PyStr(<<120>>) >>,
                       << k_forecast,
                          PyList(<< PyDict(<< << k_weather, PyInt(5) >> >>) >>) >> >>) }

ct_json == <<97, 112, 112, 108, 105, 99, 97, 116, 105, 111, 110, 47, 106, 115, 111, 110>>
                                                                         \* 'application/json'
ct_html == <<116, 101, 120, 116, 47, 104, 116, 109, 108, 59, 32, 99, 104, 97, 114,
             115, 101, 116, 61, 117, 116, 102, 45, 56>>                  \* 'text/html; charset=utf-8'

\* The answers to one request.
Responses ==
    { NetError, Response(ct_html, LiveReport(1)), Response(ct_json, Invalid) }
      \cup { Response(ct_json, b) : b \in Bodies }

-----------------------------------------------------------------------------
(* The process: main, with fetch_weather_data's loop one request a step.   *)

Init ==
    /\ argv \in Argvs
    /\ pc = "start"
    /\ city_name = << >>
    /\ forecast_days = 0
    /\ json_output = FALSE
    /\ simple = FALSE
    /\ i = 0
    /\ city_code = << >>
    /\ net = << >>
    /\ data = PyNone
    /\ result = PyNone
    /\ stdout = << >>
    /\ exc = "none"
    /\ exit_status = -1             \* the process is running

\* A variant of Usage that exits with status 0.
Usage_ExitZero ==
    /\ pc = "start"
    /\ Len(argv) < 2
    /\ stdout' = stdout \o UsageText
    /\ exit_status' = 0
    /\ pc' = "exit"
    /\ UNCHANGED << argv, city_name, forecast_days, json_output, simple, i,
                    city_code, net, data, result, exc >>

\* Lines 169-173: no city name; the usage message and sys.exit(1).
Usage ==
    /\ pc = "start"
    /\ Len(argv) < 2
    /\ stdout' = stdout \o UsageText
    /\ exit_status' = 1
    /\ pc' = "exit"
    /\ UNCHANGED << argv, city_name, forecast_days, json_output, simple, i,
                    city_code, net, data, result, exc >>

\* Lines 175-181.
Begin ==
    /\ pc = "start"
    /\ Len(argv) >= 2
    /\ city_name' = argv[2]
    /\ forecast_days' = 7
    /\ json_output' = FALSE
    /\ simple' = FALSE
    /\ i' = 2
    /\ pc' = "args"
    /\ UNCHANGED << argv, city_code, net, data, result, stdout, exc, exit_status >>

\* Lines 182-191: one turn of the argument loop; sys.argv[i] is argv[i + 1].
\* int() of the argument after --forecast may raise ValueError, which
\* nothing catches.
ParseArg ==
    /\ pc = "args"
    /\ i < Len(argv)
    /\ LET arg == argv[i + 1] IN
       IF arg = a_json
       THEN /\ json_output' = TRUE
            /\ i' = i + 1
            /\ UNCHANGED << simple, forecast_days, pc, exc, exit_status >>
       ELSE IF arg = a_simple
       THEN /\ simple' = TRUE
            /\ i' = i + 1
            /\ UNCHANGED << json_output, forecast_days, pc, exc, exit_status >>
       ELSE IF arg = a_forecast /\ i + 1 < Len(argv)
       THEN IF py_int(argv[i + 2]).kind = "raise"
            THEN /\ exc' = py_int(argv[i + 2]).exc
                 /\ exit_status' = 1
                 /\ pc' = "exit"
                 /\ UNCHANGED << json_output, simple, forecast_days, i >>
            ELSE /\ forecast_days' = py_int(argv[i + 2]).n
                 /\ i' = i + 2
                 /\ UNCHANGED << json_output, simple, pc, exc, exit_status >>
       ELSE /\ i' = i + 1
            /\ UNCHANGED << json_output, simple, forecast_days, pc, exc, exit_status >>
    /\ UNCHANGED << argv, city_name, city_code, net, data, result, stdout >>

\* Line 194, reached when the loop condition of line 182 fails.
Resolve ==
    /\ pc = "args"
    /\ ~(i < Len(argv))
    /\ city_code' = get_city_code(city_name)
    /\ pc' = "fetch"
    /\ UNCHANGED << argv, city_name, forecast_days, json_output, simple, i, net,
                    data, result, stdout, exc, exit_status >>

\* Lines 86-94: one turn of the loop over urls: the next candidate is
\* requested and answered; a JSON answer that parses is returned to main
\* (line 197), anything else leads to the next turn.
Request ==
    /\ pc = "fetch"
    /\ Len(net) < Len(CandidateUrls(city_code))
    /\ \E r \in Responses :
         /\ net' = Append(net, [url |-> CandidateUrls(city_code)[Len(net) + 1],
                                answer |-> r])
         /\ IF Succeeds(r)
            THEN data' = r.body /\ pc' = "fetched"
            ELSE UNCHANGED << data, pc >>
    /\ UNCHANGED << argv, city_name, forecast_days, json_output, simple, i,
                    city_code, result, stdout, exc, exit_status >>

\* Line 96: every candidate was tried; fetch_weather_data returns None.
FetchNone ==
    /\ pc = "fetch"
    /\ ~(Len(net) < Len(CandidateUrls(city_code)))
    /\ data' = PyNone
    /\ pc' = "fetched"
    /\ UNCHANGED << argv, city_name, forecast_days, json_output, simple, i,
                    city_code, net, result, stdout, exc, exit_status >>

\* Lines 199-222: data is None; the demo report takes its place.
DemoFallback ==
    /\ pc = "fetched"
    /\ data.kind = "null"
    /\ \E now \in Clocks : data' = DemoReport(city_name, now)
    /\ pc' = "print"
    /\ UNCHANGED << argv, city_name, forecast_days, json_output, simple, i,
                    city_code, net, result, stdout, exc, exit_status >>

\* Line 199, data is not None: main goes on to line 225 with the value
\* fetch_weather_data returned.
LiveData ==
    /\ pc = "fetched"
    /\ data.kind # "null"
    /\ pc' = "print"
    /\ UNCHANGED << argv, city_name, forecast_days, json_output, simple, i,
                    city_code, net, data, result, stdout, exc, exit_status >>

\* Line 225: print(format_output(...)), then main returns and the process
\* exits with status 0; an exception of format_output ends it with a
\* traceback and status 1, nothing printed.
PrintReport ==
    /\ pc = "print"
    /\ LET out == format_output(data, simple, json_output) IN
       IF out.kind = "raise"
       THEN /\ exc' = out.exc
            /\ exit_status' = 1
            /\ UNCHANGED stdout
       ELSE /\ stdout' = stdout \o out.s \o << 10 >>
            /\ exit_status' = 0
            /\ UNCHANGED exc
    /\ pc' = "exit"
    /\ UNCHANGED << argv, city_name, forecast_days, json_output, simple, i,
                    city_code, net, data, result >>

Next ==
    \/ Usage
    \/ Begin
    \/ ParseArg
    \/ Resolve
    \/ Request
    \/ FetchNone
    \/ DemoFallback
    \/ LiveData
    \/ PrintReport

Spec == Init /\ [][Next]_vars

-----------------------------------------------------------------------------
(* The resolver on its own: get_city_code applied to one city name.        *)

MaxCityLen == 3       \* the longest city name spelled over NameAlphabet

\* Every substring of every table name (the empty str among them).
PartsOf(name) == { SubSeq(name, a, b) : a \in 1..Len(name), b \in 0..Len(name) }
NameParts == UNION { PartsOf(CITY_CODES[k][1]) : k \in 1..Len(CITY_CODES) }
\* '北', '京', '海', '南', '州' and 'x'.
NameAlphabet == { 21271, 20140, 28023, 21335, 24030, 120 }
\* The city names tried: the parts of the table names, every two of them
\* joined (a name inside a longer input, two names in one input, inputs
\* that match nothing), and every str over NameAlphabet up to MaxCityLen.
CityInputs ==
    { x \o y : x \in NameParts, y \in NameParts }
      \cup SeqsUpTo(NameAlphabet, MaxCityLen)

InitResolver ==
    /\ city_name \in CityInputs
    /\ pc = "call"
    /\ argv = << >>
    /\ forecast_days = 0
    /\ json_output = FALSE
    /\ simple = FALSE
    /\ i = 0
    /\ city_code = << >>
    /\ net = << >>
    /\ data = PyNone
    /\ result = PyNone
    /\ stdout = << >>
    /\ exc = "none"
    /\ exit_status = -1

CallResolver ==
    /\ pc = "call"
    /\ city_code' = get_city_code(city_name)
    /\ pc' = "return"
    /\ UNCHANGED << argv, city_name, forecast_days, json_output, simple, i, net,
                    data, result, stdout, exc, exit_status >>

NextResolver == CallResolver

SpecResolver == InitResolver /\ [][NextResolver]_vars

-----------------------------------------------------------------------------
(* The normalizer on its own: parse_gxweather_data applied to one object.  *)

\* A 'current' object with the first j fields, each holding v.
RawCurrent(j, v) == PyDict([k \in 1..j |-> << CurrentKeys[k], v >>])
\* The raw objects tried: 'current' absent, or with the first j fields all
\* set to '21', to '' or to null; 'forecast' absent, or a list of up to
\* MaxForecast days.
RawObjects ==
    { PyDict(c \o f) :
        c \in { << >> }
                \cup { << << k_current, RawCurrent(j, v) >> >> :
                         j \in 0..Len(CurrentKeys),
                         v \in { PyStr(<<50, 49>>), PyStr(<< >>), PyNone } },
        f \in { << >> }
                \cup { << << k_forecast, PyList([k \in 1..n |-> LiveDay(k)]) >> >> :
                         n \in 0..MaxForecast } }

InitNormalizer ==
    /\ data \in RawObjects
    /\ city_name \in Cities
    /\ pc = "call"
    /\ argv = << >>
    /\ forecast_days = 0
    /\ json_output = FALSE
    /\ simple = FALSE
    /\ i = 0
    /\ city_code = << >>
    /\ net = << >>
    /\ result = PyNone
    /\ stdout = << >>
    /\ exc = "none"
    /\ exit_status = -1

CallNormalizer ==
    /\ pc = "call"
    /\ \E now \in Clocks : result' = parse_gxweather_data(data, city_name, now)
    /\ pc' = "return"
    /\ UNCHANGED << argv, city_name, forecast_days, json_output, simple, i,
                    city_code, net, data, stdout, exc, exit_status >>

NextNormalizer == CallNormalizer

SpecNormalizer == InitNormalizer /\ [][NextNormalizer]_vars

-----------------------------------------------------------------------------
(* The claims.                                                             *)

\* The arguments after the city name.
Args == SubSeq(argv, 3, Len(argv))
\* fetch_weather_data has returned to main.
Fetched == pc \in {"fetched", "print"} \/ (pc = "exit" /\ city_code # << >>)
\* What it returned: the body of the request that succeeded, else None.
FetchReturn ==
    IF net # << >> /\ Succeeds(net[Len(net)].answer)
    THEN net[Len(net)].answer.body
    ELSE PyNone
AnySucceeded == \E k \in 1..Len(net) : Succeeds(net[k].answer)

\* C1: when a city name is given and fetch_weather_data returns None, main
\* ends normally having printed the demo report: its city is the input city
\* name itself, its current conditions are temp 14, feels-like 10.8 and
\* weather 多云, its forecast has six days, and no exception is shown.
C1_DemoOnNoData ==
    (pc = "exit" /\ Fetched /\ FetchReturn.kind = "null") =>
        /\ exc = "none"
        /\ exit_status = 0
        /\ data.kind = "dict"
        /\ DictGet(data, k_city, PyNone) = PyStr(argv[2])
        /\ LET current == DictGet(data, k_current, PyNone) IN
             /\ current.kind = "dict"
             /\ DictGet(current, k_temp, PyNone) = PyStr(<<49, 52>>)
             /\ DictGet(current, k_feels_like, PyNone) = PyStr(<<49, 48, 46, 56>>)
             /\ DictGet(current, k_weather, PyNone) = PyStr(<<22810, 20113>>)
        /\ LET forecast == DictGet(data, k_forecast, PyNone) IN
             forecast.kind = "list" /\ Len(forecast.items) = 6
        /\ IF json_output
           THEN /\ StrIn(<<34, 99, 105, 116, 121, 34, 58, 32, 34>> \o argv[2] \o <<34, 44, 10>>,
                         stdout)                                         \* '"city": "..",\n'
                /\ StrIn(<<34, 116, 101, 109, 112, 34, 58, 32, 34, 49, 52, 34>>, stdout)
                                                                         \* '"temp": "14"'
                /\ StrIn(<<34, 102, 101, 101, 108, 115, 95, 108, 105, 107, 101, 34, 58, 32,
                           34, 49, 48, 46, 56, 34>>, stdout)             \* '"feels_like": "10.8"'
                /\ StrIn(<<34, 119, 101, 97, 116, 104, 101, 114, 34, 58, 32, 34, 22810,
                           20113, 34>>, stdout)                          \* '"weather": "多云"'
           ELSE /\ SubSeq(stdout, 1, 3 + Len(argv[2]))
                     = <<128205, 32>> \o argv[2] \o <<10>>               \* '📍 ..\n'
                /\ StrIn(<<24403, 21069, 28201, 24230, 65306, 49, 52, 176, 67, 10>>, stdout)
                                                                         \* '当前温度：14°C\n'
                /\ StrIn(<<20307, 24863, 28201, 24230, 65306, 49, 48, 46, 56, 176, 67, 10>>,
                         stdout)                                         \* '体感温度：10.8°C\n'
                /\ StrIn(<<22825, 27668, 65306, 22810, 20113, 10>>, stdout)
                                                                         \* '天气：多云\n'
\* Both candidates failed for the city 灵山县 (resolved to the entry 灵山) and
\* the demo report was printed.
C1_Witness ==
    /\ pc = "exit"
    /\ Len(net) = 2
    /\ ~AnySucceeded
    /\ argv[2] = <<28789, 23665, 21439>>
    /\ city_code = <<49, 48, 49, 51, 48, 49, 49, 48, 51>>
    /\ DictGet(data, k_city, PyNone) = PyStr(<<28789, 23665, 21439>>)
    /\ stdout # << >>

\* C2: whenever a city name is given, main ends with status 0, no exception
\* and a report on standard output, whatever the other arguments and
\* whatever fetch_weather_data returned.
C2_AlwaysPrints ==
    (pc = "exit" /\ Len(argv) >= 2) =>
        (exit_status = 0 /\ exc = "none" /\ stdout # << >>)

\* C3: without a city name main prints the usage message (it names the
\* program) and exits with status 1, and neither resolves a city, nor sends
\* a request, nor builds or formats a report.
C3_UsageWithoutCity ==
    Len(argv) < 2 =>
        /\ city_code = << >>
        /\ net = << >>
        /\ data = PyNone
        /\ result = PyNone
        /\ exc = "none"
        /\ pc \in {"start", "exit"}
        /\ pc = "start" => (stdout = << >> /\ exit_status = -1)
        /\ pc = "exit" =>
             /\ exit_status = 1
             /\ SubSeq(stdout, 1, 3) = <<29992, 27861, 65306>>           \* '用法：'
             /\ StrIn(prog, stdout)
             /\ stdout[Len(stdout)] = 10
C3_Witness == Len(argv) < 2 /\ pc = "exit" /\ exit_status = 1 /\ stdout # << >>

\* The entries a city name matches in either direction, and the code the
\* resolver is to return.
MatchingEntries(name) ==
    { k \in 1..Len(CITY_CODES) :
        StrIn(CITY_CODES[k][1], name) \/ StrIn(name, CITY_CODES[k][1]) }
ReferenceCode(name) ==
    IF \E k \in 1..Len(CITY_CODES) : CITY_CODES[k][1] = name
    THEN CITY_CODES[CHOOSE k \in 1..Len(CITY_CODES) : CITY_CODES[k][1] = name][2]
    ELSE IF MatchingEntries(name) # {}
    THEN CITY_CODES[CHOOSE k \in MatchingEntries(name) :
                       \A j \in MatchingEntries(name) : k <= j][2]
    ELSE <<49, 48, 49, 48, 49, 48, 49, 48, 48>>
\* C4: get_city_code returns the code of the key equal to the input if
\* there is one, else the code of the first entry in table order whose name
\* is in the input or contains it, else '101010100'; it always returns a
\* code.
C4_ResolverReference ==
    pc = "return" =>
        /\ city_code = ReferenceCode(city_name)
        /\ \E k \in 1..Len(CITY_CODES) : city_code = CITY_CODES[k][2]
\* '上海北京' holds two names; the earlier table entry, 北京, wins.
C4_Witness ==
    /\ pc = "return"
    /\ city_name = <<19978, 28023, 21271, 20140>>
    /\ city_code = <<49, 48, 49, 48, 49, 48, 49, 48, 48>>

\* The entries whose name contains a city name.
EntriesContaining(name) ==
    { k \in 1..Len(CITY_CODES) : StrIn(name, CITY_CODES[k][1]) }
\* C5: a city name that is a substring of exactly one entry name resolves to
\* that entry's code.
C5_UniqueSubstring ==
    (pc = "return" /\ Cardinality(EntriesContaining(city_name)) = 1) =>
        \A k \in EntriesContaining(city_name) : city_code = CITY_CODES[k][2]
\* '哈尔' is a substring of 哈尔滨 only.
C5_Witness ==
    /\ pc = "return"
    /\ city_name = <<21704, 23572>>
    /\ EntriesContaining(city_name) = {23}
    /\ city_code = <<49, 48, 49, 48, 53, 48, 49, 48, 49>>

\* The order of the requests: request k goes to candidate k, so each
\* candidate is contacted at most once and in list order; a request is sent
\* only after every earlier one failed; what is returned after a success is
\* the body that parsed.
FetchOrder ==
    /\ Len(net) <= 2
    /\ \A k \in 1..Len(net) : net[k].url = CandidateUrls(city_code)[k]
    /\ \A k \in 1..(Len(net) - 1) : ~Succeeds(net[k].answer)
    /\ (pc = "fetched" /\ AnySucceeded) => data = net[Len(net)].answer.body
    /\ (pc = "fetched" /\ ~AnySucceeded) => (Len(net) = 2 /\ data = PyNone)
\* C6: the candidates are contacted one after the other in list order, each
\* at most once and only after the earlier ones failed; the first body that
\* parses is returned; and None is returned exactly when no candidate
\* succeeded.
C6_SequentialFetch ==
    /\ FetchOrder
    /\ pc = "fetched" => (data.kind = "null" <=> ~AnySucceeded)

\* C7: the report that reaches format_output has at most 7 forecast entries.
C7_ForecastAtMost7 ==
    (pc = "print" /\ data.kind = "dict"
       /\ DictGet(data, k_forecast, PyNone).kind = "list") =>
        Len(DictGet(data, k_forecast, PyNone).items) <= 7

\* A field value that is a non-empty str or a number.
NonEmptyValue(v) ==
    CASE v.kind = "str"  -> v.s # << >>
      [] v.kind = "int"  -> TRUE
      [] OTHER -> FALSE
\* C8: the 'current' part of parse_gxweather_data's result has all eight
\* fields, each 'N/A' or a non-empty value.
C8_CurrentFieldsComplete ==
    (pc = "return" /\ result.kind = "dict") =>
        LET current == DictGet(result, k_current, PyNone) IN
        /\ current.kind = "dict"
        /\ \A k \in 1..Len(CurrentKeys) :
             /\ DictHas(current, CurrentKeys[k])
             /\ NonEmptyValue(DictItem(current, CurrentKeys[k]))

\* Every --forecast that has a successor is followed by an integer.
RECURSIVE ForecastsAreIntegers(_)
ForecastsAreIntegers(a) ==
    IF a = << >> THEN TRUE
    ELSE IF Head(a) = a_forecast /\ Len(a) >= 2
         THEN IsIntLiteral(a[2]) /\ ForecastsAreIntegers(SubSeq(a, 3, Len(a)))
         ELSE ForecastsAreIntegers(Tail(a))
\* The arguments with --simple, --forecast N and a last --forecast left out.
RECURSIVE WithoutInertFlags(_)
WithoutInertFlags(a) ==
    IF a = << >> THEN << >>
    ELSE IF Head(a) = a_forecast /\ Len(a) >= 2
         THEN WithoutInertFlags(SubSeq(a, 3, Len(a)))
    ELSE IF Head(a) \in {a_simple, a_forecast} THEN WithoutInertFlags(Tail(a))
    ELSE << Head(a) >> \o WithoutInertFlags(Tail(a))
\* The run without these flags: its --json setting, its report, its output.
PlainJson ==
    \E k \in 1..Len(WithoutInertFlags(Args)) : WithoutInertFlags(Args)[k] = a_json
PlainReport(now) ==
    IF FetchReturn.kind = "null" THEN DemoReport(argv[2], now) ELSE FetchReturn
\* The number of forecast entries of a report (0 if it has no such list).
ForecastLen(d) ==
    IF d.kind = "dict" /\ DictGet(d, k_forecast, PyNone).kind = "list"
    THEN Len(DictGet(d, k_forecast, PyNone).items)
    ELSE 0
\* C9: --simple and --forecast N change nothing but simple and
\* forecast_days: the code, the report (its forecast as long as without the
\* flags) and what is printed are those of the run without them, and the
\* argument after --forecast is not read as a flag.
C9_InertFlags ==
    (pc = "exit" /\ Fetched /\ ForecastsAreIntegers(Args)) =>
        /\ city_code = get_city_code(argv[2])
        /\ json_output = PlainJson
        /\ \E now \in Clocks :
             /\ data = PlainReport(now)
             /\ ForecastLen(data) = ForecastLen(PlainReport(now))
             /\ LET out == FormatReport(PlainReport(now), PlainJson) IN
                  IF out.kind = "raise"
                  THEN exc = out.exc /\ stdout = << >> /\ exit_status = 1
                  ELSE exc = "none" /\ stdout = out.s \o << 10 >> /\ exit_status = 0
\* '--simple --forecast 3' with a live forecast longer than 3 days, printed
\* in full.
C9_Witness ==
    /\ pc = "exit"
    /\ Args = << a_simple, a_forecast, <<51>> >>
    /\ simple
    /\ forecast_days = 3
    /\ ~json_output
    /\ FetchReturn.kind = "dict"
    /\ ForecastLen(data) > 3
    /\ StrIn(<<32, 32, 51, 45, 52, 32, 32>>, stdout)                     \* '  3-4  '

\* C10: a value fetched is passed through parse_gxweather_data with the city
\* name, and the report that reaches format_output is its result.
C10_NormalizedBeforeFormat ==
    (pc = "print" /\ FetchReturn.kind # "null") =>
        \E now \in Clocks : data = parse_gxweather_data(FetchReturn, city_name, now)

=============================================================================
